---- MODULE Spec2Model ----
(***************************************************************************)
(* A model of hstat's TimeWindow (timewindow.go): a fixed number of        *)
(* buckets, one per time slice, rotated lazily by the calling operation.   *)
(* Time is counted in whole seconds; bucket values are integers.           *)
(***************************************************************************)
EXTENDS Integers, FiniteSets

\* ------------------------------------------------------------------ bounds
MaxSize == 3
MaxDur == 2
MaxTime == 3
MaxVal == 2
MaxBucket == 2
MaxBelow == 1
MaxHeight == 2
NumProcs == 2
ConcSize == 2
MaxAge == 6
MaxRec == 2
MaxScanTime == 1

Sizes == 1..MaxSize
Durations == 1..MaxDur
Vals == 0..MaxVal
Deltas == 1..MaxVal
Heights == 0..MaxHeight

\* The zero value of time.Time, earlier than every clock reading.
ZeroTime == -1

VARIABLES
    buckets,      \* w.buckets: index -> value
    size,         \* w.size
    duration,     \* w.duration
    lastTime,     \* w.lastTime
    cursor,       \* w.cursor
    lastUpdate,   \* w.lastUpdate
    clock,        \* the reading time.Now() returns
    last,         \* history: the latest operation and what it returned
    trace,        \* history: the first two operations that ran rotate
    incDecAt,     \* history: clock reading of the latest Inc or Dec
    run,          \* history: the Append calls made so far
    mode,         \* history: "seq" while the histories are kept; "back" once
                  \* the clock has been set back, "acted" once an operation
                  \* has rotated at the earlier reading; "conc" with
                  \* concurrent callers; "age" while the writes are stamped
    wrote,        \* history: per bucket, the reading of its last write plus
                  \* one, 0 if it was not written since it was last zeroed
    order,        \* history: per bucket, the rank of its last write among
                  \* the writes the buckets still hold, 0 as in wrote
    blob,         \* what Value returned last, held by its caller
    saved,        \* history: the window as it was at that call of Value
    pers,         \* history: the latest call of Value or Scan
    panicked,     \* an operation has ended in a run-time panic
    pc,           \* each caller's position in its call
    call,         \* each caller's operation
    readers,      \* w.mu: the read locks held
    wmutex,       \* w.mu: the caller inside Lock()...Unlock(), if any
    writing       \* w.mu: that caller holds the write lock

vars == <<buckets, size, duration, lastTime, cursor, lastUpdate, clock,
          last, trace, incDecAt, run, mode, wrote, order,
          blob, saved, pers, panicked,
          pc, call, readers, wmutex, writing>>

lockVars == <<pc, call, readers, wmutex, writing>>

\* ------------------------------------------------------------ the struct
Win ==
    [buckets |-> buckets, size |-> size, duration |-> duration,
     lastTime |-> lastTime, cursor |-> cursor, lastUpdate |-> lastUpdate]

SetWin(w) ==
    /\ buckets' = w.buckets
    /\ size' = w.size
    /\ duration' = w.duration
    /\ lastTime' = w.lastTime
    /\ cursor' = w.cursor
    /\ lastUpdate' = w.lastUpdate

NewTimeWindow(sz, dur, now) ==
    [buckets |-> [i \in 0..(sz - 1) |-> 0], size |-> sz, duration |-> dur,
     lastTime |-> now, cursor |-> 0, lastUpdate |-> ZeroTime]

\* Go's integer division truncates toward zero.
TruncDiv(a, b) == IF a >= 0 THEN a \div b ELSE -((-a) \div b)

\* passed := int(now.Sub(w.lastTime) / w.duration)
passed(w, now) == TruncDiv(now - w.lastTime, w.duration)

\* rotateLoop with the cursor stepped but never wrapped.
RECURSIVE rotateLoopNoWrap(_, _)
rotateLoopNoWrap(w, k) ==
    IF k = 0 THEN w
    ELSE LET c == w.cursor + 1
         IN rotateLoopNoWrap([w EXCEPT !.cursor = c,
                                       !.buckets = [i \in DOMAIN w.buckets |->
                                                      IF i = c THEN 0 ELSE w.buckets[i]]],
                             k - 1)

\* rotateLoop zeroing the bucket it leaves, not the one it enters.
RECURSIVE rotateLoopZeroOld(_, _)
rotateLoopZeroOld(w, k) ==
    IF k = 0 THEN w
    ELSE LET c == (w.cursor + 1) % w.size
         IN rotateLoopZeroOld([w EXCEPT !.cursor = c, !.buckets[w.cursor] = 0], k - 1)

\* rotateLoop stepping the cursor backward.
RECURSIVE rotateLoopBack(_, _)
rotateLoopBack(w, k) ==
    IF k = 0 THEN w
    ELSE LET c == (w.cursor - 1 + w.size) % w.size
         IN rotateLoopBack([w EXCEPT !.cursor = c, !.buckets[c] = 0], k - 1)

\* The loop of rotate: k times, step the cursor and zero the bucket entered.
RECURSIVE rotateLoop(_, _)
rotateLoop(w, k) ==
    IF k = 0 THEN w
    ELSE LET c == (w.cursor + 1) % w.size
         IN rotateLoop([w EXCEPT !.cursor = c, !.buckets[c] = 0], k - 1)

\* rotate that resets the cursor of a stale window and keeps its buckets.
rotateKeepStale(w, now) ==
    LET p == passed(w, now) IN
    IF p <= 0 THEN w
    ELSE IF p >= w.size
         THEN [w EXCEPT !.cursor = 0, !.lastTime = now]
         ELSE [rotateLoop(w, p) EXCEPT !.lastTime = now]

\* rotate that moves lastTime on by whole bucket periods only.
rotateAligned(w, now) ==
    LET p == passed(w, now) IN
    IF p <= 0 THEN w
    ELSE IF p >= w.size
         THEN [w EXCEPT !.buckets = [i \in DOMAIN w.buckets |-> 0],
                        !.cursor = 0,
                        !.lastTime = @ + p * w.duration]
         ELSE [rotateLoop(w, p) EXCEPT !.lastTime = @ + p * w.duration]

\* rotate that takes the reading as lastTime even when no period has passed.
rotateRestamps(w, now) ==
    LET p == passed(w, now) IN
    IF p <= 0 THEN [w EXCEPT !.lastTime = now]
    ELSE IF p >= w.size
         THEN [w EXCEPT !.buckets = [i \in DOMAIN w.buckets |-> 0],
                        !.cursor = 0,
                        !.lastTime = now]
         ELSE [rotateLoop(w, p) EXCEPT !.lastTime = now]

rotate(w, now) ==
    LET p == passed(w, now) IN
    IF p <= 0 THEN w
    ELSE IF p >= w.size
         THEN [w EXCEPT !.buckets = [i \in DOMAIN w.buckets |-> 0],
                        !.cursor = 0,
                        !.lastTime = now]
         ELSE [rotateLoop(w, p) EXCEPT !.lastTime = now]

\* ------------------------------------------------------------ the writes
\* Append that also stamps lastUpdate.
AppendStamps(w, value, now) ==
    LET r == rotate(w, now)
    IN [r EXCEPT !.lastUpdate = now, !.buckets[r.cursor] = value]

Append(w, value, now) ==
    LET r == rotate(w, now) IN [r EXCEPT !.buckets[r.cursor] = value]

Inc(w, delta, now) ==
    LET r == rotate(w, now)
    IN [r EXCEPT !.lastUpdate = now, !.buckets[r.cursor] = @ + delta]

\* Dec that adds.
DecAdds(w, delta, now) ==
    LET r == rotate(w, now)
    IN [r EXCEPT !.lastUpdate = now, !.buckets[r.cursor] = @ + delta]

Dec(w, delta, now) ==
    LET r == rotate(w, now)
    IN [r EXCEPT !.lastUpdate = now, !.buckets[r.cursor] = @ - delta]

\* Reset that does not rotate.
ResetNoRotate(w, value, now) == [w EXCEPT !.buckets[w.cursor] = value]

Reset(w, value, now) ==
    LET r == rotate(w, now) IN [r EXCEPT !.buckets[r.cursor] = value]

\* ------------------------------------------------------------- the reads
RECURSIVE SumUpTo(_, _)
SumUpTo(b, n) == IF n = 0 THEN 0 ELSE SumUpTo(b, n - 1) + b[n - 1]

Sum(w) == SumUpTo(w.buckets, Cardinality(DOMAIN w.buckets))

\* Count of the positive buckets only.
CountPositive(w) == Cardinality({i \in DOMAIN w.buckets : w.buckets[i] > 0})

Count(w) == Cardinality({i \in DOMAIN w.buckets : w.buckets[i] # 0})

\* A float64 quotient is kept as the fraction num/den.
Avg(w) ==
    LET count == Count(w) IN
    IF count = 0 THEN [num |-> 0, den |-> 1]
    ELSE [num |-> Sum(w), den |-> count]

GetLatestValue(w) == <<w.buckets[w.cursor], TRUE>>

LastUpdateTime(w) == w.lastUpdate

\* GetData that does not rotate.
GetDataNoRotate(w, now, now2) ==
    [win |-> w,
     out |-> [i \in 0..(w.size - 1) |->
                [Time |-> now2 - i * w.duration,
                 Values |-> <<w.buckets[(w.cursor - i + w.size) % w.size]>>]]]

\* GetData walking forward from the cursor.
GetDataForward(w, now, now2) ==
    LET r == rotate(w, now) IN
    [win |-> r,
     out |-> [i \in 0..(r.size - 1) |->
                [Time |-> now2 - i * r.duration,
                 Values |-> <<r.buckets[(r.cursor + i) % r.size]>>]]]

\* GetData reads the clock twice: `now` for rotate, `now2` for the timestamps.
\* It yields the window after rotation and the slice it returns.
GetData(w, now, now2) ==
    LET r == rotate(w, now) IN
    [win |-> r,
     out |-> [i \in 0..(r.size - 1) |->
                [Time |-> now2 - i * r.duration,
                 Values |-> <<r.buckets[(r.cursor - i + r.size) % r.size]>>]]]

\* ---------------------------------------------------------- the histogram
\* A nil *HistogramOption, and a given one.
Nil == [nil |-> TRUE, Height |-> 0]
Option(h) == [nil |-> FALSE, Height |-> h]

\* The two texts PrintHistogram begins with.
NoData == "No data available\n"
Title == "\nTime Window Histogram:\n\n"

\* A cell of the number row or the label row: the number printed, or blank.
Blank == <<>>
Cell(n) == <<n>>

\* HistogramOption{Height: 20}
DefaultHeight == 20
DefaultHistogramOption == Option(DefaultHeight)

\* Above this many buckets only every (size / LabelParts)-th label is printed.
LabelAllUpTo == 20
LabelParts == 10

\* int(w.duration.Seconds()): durations are whole seconds here.
Seconds(d) == d

RECURSIVE MaxUpTo(_, _)
MaxUpTo(f, n) ==
    IF n = 0 THEN 0
    ELSE LET m == MaxUpTo(f, n - 1) IN IF f[n - 1] > m THEN f[n - 1] ELSE m

\* PrintHistogram filling a cell only above the threshold of its row.
PrintHistogramAbove(w, opt, now) ==
    LET r == rotate(w, now)
        o == IF opt.nil THEN DefaultHistogramOption ELSE opt
        cols == 0..(r.size - 1)
        at(i) == r.buckets[(r.cursor - i + r.size) % r.size]
        values == [i \in cols |-> IF at(i) > 0 THEN at(i) ELSE 0]
        times == [i \in cols |-> (-i) * Seconds(r.duration)]
        maxValue == MaxUpTo(values, r.size)
        height == o.Height
        interval == IF r.size > LabelAllUpTo THEN r.size \div LabelParts ELSE 1
        bar(h) == [i \in cols |-> values[i] * height > maxValue * h]
    IN [win |-> r,
        out |-> IF maxValue = 0 THEN [head |-> NoData]
                ELSE [head |-> Title,
                      bars |-> [k \in 1..height |-> bar(height - k + 1)],
                      nums |-> [i \in cols |->
                                  IF values[i] > 0 THEN Cell(values[i]) ELSE Blank],
                      labels |-> [i \in cols |->
                                  IF i % interval = 0 THEN Cell(times[i]) ELSE Blank]]]

\* PrintHistogram yields the window after rotation and the text, kept as the
\* rows it is made of: the bar rows from the top one down, the row of
\* numbers and the row of time labels.
PrintHistogram(w, opt, now) ==
    LET r == rotate(w, now)
        o == IF opt.nil THEN DefaultHistogramOption ELSE opt
        cols == 0..(r.size - 1)
        at(i) == r.buckets[(r.cursor - i + r.size) % r.size]
        values == [i \in cols |-> IF at(i) > 0 THEN at(i) ELSE 0]
        times == [i \in cols |-> (-i) * Seconds(r.duration)]
        maxValue == MaxUpTo(values, r.size)
        height == o.Height
        interval == IF r.size > LabelAllUpTo THEN r.size \div LabelParts ELSE 1
        \* values[i] >= maxValue * h / height, for height >= h >= 1
        bar(h) == [i \in cols |-> values[i] * height >= maxValue * h]
    IN [win |-> r,
        out |-> IF maxValue = 0 THEN [head |-> NoData]
                ELSE [head |-> Title,
                      bars |-> [k \in 1..height |-> bar(height - k + 1)],
                      nums |-> [i \in cols |->
                                  IF values[i] > 0 THEN Cell(values[i]) ELSE Blank],
                      labels |-> [i \in cols |->
                                  IF i % interval = 0 THEN Cell(times[i]) ELSE Blank]]]

\* ----------------------------------------------------------- persistence
\* A time.Time in JSON is the RFC 3339 text of its instant.
RFC3339(t) == [rfc3339 |-> t]
ParseTime(s) == s.rfc3339

\* len() of a slice, and of a JSON array.
Len(a) == Cardinality(DOMAIN a)

\* Marshal that leaves the cursor out.
MarshalNoCursor(w) ==
    [buckets |-> [k \in 1..Len(w.buckets) |-> w.buckets[k - 1]],
     size |-> w.size,
     duration |-> w.duration,
     last_time |-> RFC3339(w.lastTime),
     cursor |-> 0,
     last_update |-> RFC3339(w.lastUpdate)]

\* json.Marshal(data) in Value: the JSON object under its field names, the
\* array counted from 1.
Marshal(w) ==
    [buckets |-> [k \in 1..Len(w.buckets) |-> w.buckets[k - 1]],
     size |-> w.size,
     duration |-> w.duration,
     last_time |-> RFC3339(w.lastTime),
     cursor |-> w.cursor,
     last_update |-> RFC3339(w.lastUpdate)]

\* The zero value of Scan's local struct `data`, and the JSON text of it.
ZeroData ==
    [Buckets |-> [i \in {} |-> 0], Size |-> 0, Duration |-> 0,
     LastTime |-> ZeroTime, Cursor |-> 0, LastUpdate |-> ZeroTime]

NoText ==
    [buckets |-> [k \in {} |-> 0], size |-> 0, duration |-> 0,
     last_time |-> RFC3339(ZeroTime), cursor |-> 0,
     last_update |-> RFC3339(ZeroTime)]

\* json.Unmarshal(bytes, &data) of a well-formed text.
Unmarshal(text) ==
    [Buckets |-> [i \in 0..(Len(text.buckets) - 1) |-> text.buckets[i + 1]],
     Size |-> text.size,
     Duration |-> text.duration,
     LastTime |-> ParseTime(text.last_time),
     Cursor |-> text.cursor,
     LastUpdate |-> ParseTime(text.last_update)]

\* The values (interface{}) Scan is given: nil, something that is not
\* []byte, bytes json.Unmarshal rejects, and the bytes of a JSON text.
NilValue == [kind |-> "nil", valid |-> FALSE, json |-> NoText]
NotBytes == [kind |-> "string", valid |-> FALSE, json |-> NoText]
Malformed == [kind |-> "bytes", valid |-> FALSE, json |-> NoText]
Bytes(text) == [kind |-> "bytes", valid |-> TRUE, json |-> text]

Value(w) == Bytes(Marshal(w))

\* 5 * time.Minute, in seconds.
DefaultDuration == 300

\* Scan yields the window it leaves, whether it returned an error, and its
\* local `data`; on a text json.Unmarshal rejects the default duration is
\* stored in `data` alone.
Scan(w, value) ==
    IF value.kind = "nil"
    THEN [win |-> w, err |-> FALSE, data |-> ZeroData]
    ELSE IF value.kind # "bytes"
    THEN [win |-> w, err |-> TRUE, data |-> ZeroData]
    ELSE IF ~value.valid
    THEN [win |-> w, err |-> FALSE,
          data |-> [ZeroData EXCEPT !.Duration = DefaultDuration]]
    ELSE LET data == Unmarshal(value.json) IN
         [win |-> [buckets |-> data.Buckets,
                   size |-> data.Size,
                   duration |-> data.Duration,
                   lastTime |-> data.LastTime,
                   cursor |-> data.Cursor,
                   lastUpdate |-> data.LastUpdate],
          err |-> FALSE,
          data |-> data]

\* ---------------------------------------------------------------- history
\* pers when the latest operation was neither Value nor Scan.
NoCall == [op |-> "none", kind |-> "none", err |-> FALSE, changed |-> FALSE]

\* The history variables record what was called and what it returned; the
\* window never reads them. They are kept while the clock has not been set
\* back; setting it back drops them, and after that only whether an
\* operation has run rotate at a reading earlier than lastTime is recorded.
Writes == {"Append", "Inc", "Dec", "Reset"}
RotatingReads == {"GetData", "PrintHistogram"}
Rotating == Writes \cup RotatingReads

AllZero(b) == \A i \in DOMAIN b : b[i] = 0

Min(a, b) == IF a <= b THEN a ELSE b

\* What a write puts into a current bucket that held 0.
Put(op, arg) == IF op = "Dec" THEN -arg ELSE arg

\* Where the latest operation stands in the sequence: a write, then the
\* whole window span passes with no operation, then
\*   "stale":     Sum is the next operation;
\*   "cleared":   GetData or PrintHistogram is the next operation,
\*   "readClear": then Sum,
\*   "rewritten": then (after either) a write,
\*   "readNew":   then Sum.
Phase(op, now) ==
    LET idle == last.op \in Writes /\ now - clock >= size * duration IN
    IF op = "Sum" /\ idle THEN "stale"
    ELSE IF op \in RotatingReads /\ idle THEN "cleared"
    ELSE IF op = "Sum" /\ last.phase = "cleared" THEN "readClear"
    ELSE IF op \in Writes /\ last.phase \in {"cleared", "readClear"} THEN "rewritten"
    ELSE IF op = "Sum" /\ last.phase = "rewritten" THEN "readNew"
    ELSE "none"

\* The record of an operation: its argument, the clock reading at its call,
\* the bucket periods that had passed then, what it returned, and for a write
\* (and the Sum after it) the value put.
Note(op, arg, now, val) ==
    [op |-> op, arg |-> arg, at |-> now,
     passed |-> IF op \in Rotating THEN passed(Win, now) ELSE 0,
     val |-> val,
     phase |-> Phase(op, now),
     put |-> IF op \in Writes THEN Put(op, arg)
             ELSE IF op = "Sum" THEN last.put ELSE 0]

NoEvent == [op |-> "none", arg |-> 0, passed |-> 0]

\* The first two operations that ran rotate; n = 3 once there were more.
Traced(op, arg, now) ==
    LET e == [op |-> op, arg |-> IF op \in Writes THEN arg ELSE 0,
              passed |-> passed(Win, now)] IN
    IF op \notin Rotating THEN trace
    ELSE IF trace.n = 0 THEN [n |-> 1, a |-> e, b |-> NoEvent]
    ELSE IF trace.n = 1 THEN [n |-> 2, a |-> trace.a, b |-> e]
    ELSE [n |-> 3, a |-> NoEvent, b |-> NoEvent]

Broken == [ok |-> FALSE, n |-> 0, sum |-> 0, adv |-> 0]

\* run.ok: so far only Append has written, each call after the first one
\* after at least one bucket period; n and sum count the appended values and
\* adv the positions the cursor has moved since the first of them.
Run(op, arg, now) ==
    LET p == passed(Win, now) IN
    IF op = "Append"
    THEN IF ~run.ok THEN Broken
         ELSE IF run.n = 0 THEN [ok |-> TRUE, n |-> 1, sum |-> arg, adv |-> 0]
         ELSE IF p >= 1
              THEN [ok |-> TRUE, n |-> run.n + 1, sum |-> run.sum + arg,
                    adv |-> Min(size, run.adv + p)]
              ELSE Broken
    ELSE IF op \in Writes THEN Broken
    ELSE IF op \in RotatingReads /\ run.ok /\ run.n >= 1 /\ p >= 1
         THEN [run EXCEPT !.adv = Min(size, run.adv + p)]
    ELSE run

Unrecorded == [op |-> "none", arg |-> 0, at |-> 0, passed |-> 0, val |-> 0,
               phase |-> "none", put |-> 0]

\* The stamps an operation leaves: those of the buckets rotate zeroes are
\* dropped as the buckets are, and a write stamps the bucket it writes.
Stamped(stamps, op, now, stamp) ==
    LET r == rotate([Win EXCEPT !.buckets = stamps], now) IN
    IF op \notin Rotating THEN stamps
    ELSE IF op \in Writes THEN [r.buckets EXCEPT ![r.cursor] = stamp]
    ELSE r.buckets

\* Stamps renumbered 1, 2, ... from the oldest.
Ranked(stamps) ==
    [i \in DOMAIN stamps |->
        IF stamps[i] = 0 THEN 0
        ELSE Cardinality({j \in DOMAIN stamps :
                            stamps[j] # 0 /\ stamps[j] <= stamps[i]})]

Record(op, arg, now, val) ==
    /\ IF mode = "seq"
       THEN /\ last' = Note(op, arg, now, val)
            /\ trace' = Traced(op, arg, now)
            /\ run' = Run(op, arg, now)
            /\ incDecAt' = IF op \in {"Inc", "Dec"} THEN now ELSE incDecAt
            /\ UNCHANGED mode
       ELSE IF mode = "age"
       THEN /\ last' = [Unrecorded EXCEPT !.op = op, !.at = now]
            /\ UNCHANGED <<trace, run, incDecAt, mode>>
       ELSE /\ mode' = IF mode = "back" /\ op \in Rotating /\ now < lastTime
                       THEN "acted" ELSE mode
            /\ UNCHANGED <<last, trace, run, incDecAt>>
    /\ wrote' = IF mode = "age" THEN Stamped(wrote, op, now, now + 1) ELSE wrote
    /\ order' = IF mode = "age"
                THEN Ranked(Stamped(order, op, now, size + 1)) ELSE order
    /\ pers' = NoCall
    /\ UNCHANGED <<blob, saved, panicked>>

InRange(w) == \A i \in DOMAIN w.buckets :
                  w.buckets[i] >= -MaxBelow /\ w.buckets[i] <= MaxBucket

\* ---------------------------------------------------------------- actions
InitWindow ==
    /\ size \in Sizes
    /\ duration \in Durations
    /\ clock = 0
    /\ buckets = NewTimeWindow(size, duration, clock).buckets
    /\ lastTime = NewTimeWindow(size, duration, clock).lastTime
    /\ cursor = NewTimeWindow(size, duration, clock).cursor
    /\ lastUpdate = NewTimeWindow(size, duration, clock).lastUpdate
    /\ last = [op |-> "New", arg |-> 0, at |-> 0, passed |-> 0, val |-> 0,
               phase |-> "none", put |-> 0]
    /\ trace = [n |-> 0, a |-> NoEvent, b |-> NoEvent]
    /\ incDecAt = ZeroTime
    /\ run = [ok |-> TRUE, n |-> 0, sum |-> 0, adv |-> 0]
    /\ wrote = [i \in 0..(size - 1) |-> 0]
    /\ order = [i \in 0..(size - 1) |-> 0]
    /\ blob = NilValue
    /\ saved = NewTimeWindow(size, duration, clock)
    /\ pers = NoCall
    /\ panicked = FALSE

Procs == 1..NumProcs
None == 0

InitLock ==
    /\ pc = [p \in Procs |-> "idle"]
    /\ call = [p \in Procs |-> "none"]
    /\ readers = 0
    /\ wmutex = None
    /\ writing = FALSE

Init == InitWindow /\ InitLock /\ mode = "seq"

\* The clock readings an operation called now can take: time.Now() never
\* reads less than it did before. The clock runs longer where the age of
\* what the buckets hold is followed, and less long where persistence is.
Horizon ==
    IF mode = "age" THEN MaxAge
    ELSE IF mode = "scan" THEN MaxScanTime
    ELSE MaxTime
Nows == clock..Horizon

DoAppend ==
    \E v \in Vals, now \in Nows :
        LET w == Append(Win, v, now) IN
        /\ SetWin(w)
        /\ clock' = now
        /\ Record("Append", v, now, 0)

DoInc ==
    \E d \in Deltas, now \in Nows :
        LET w == Inc(Win, d, now) IN
        /\ InRange(w)
        /\ SetWin(w)
        /\ clock' = now
        /\ Record("Inc", d, now, 0)

DoDec ==
    \E d \in Deltas, now \in Nows :
        LET w == Dec(Win, d, now) IN
        /\ InRange(w)
        /\ SetWin(w)
        /\ clock' = now
        /\ Record("Dec", d, now, 0)

DoReset ==
    \E v \in Vals, now \in Nows :
        LET w == Reset(Win, v, now) IN
        /\ SetWin(w)
        /\ clock' = now
        /\ Record("Reset", v, now, 0)

Unwritten == <<buckets, size, duration, lastTime, cursor, lastUpdate>>

DoSum ==
    \E now \in Nows :
        /\ UNCHANGED Unwritten
        /\ clock' = now
        /\ Record("Sum", 0, now, Sum(Win))

DoCount ==
    \E now \in Nows :
        /\ UNCHANGED Unwritten
        /\ clock' = now
        /\ Record("Count", 0, now, Count(Win))

DoAvg ==
    \E now \in Nows :
        /\ UNCHANGED Unwritten
        /\ clock' = now
        /\ Record("Avg", 0, now, Avg(Win))

DoGetLatestValue ==
    \E now \in Nows :
        /\ UNCHANGED Unwritten
        /\ clock' = now
        /\ Record("GetLatestValue", 0, now, GetLatestValue(Win))

DoLastUpdateTime ==
    \E now \in Nows :
        /\ UNCHANGED Unwritten
        /\ clock' = now
        /\ Record("LastUpdateTime", 0, now, LastUpdateTime(Win))

\* The second clock reading of GetData is the first or a later one.
DoGetData ==
    \E now \in Nows, d \in 0..1 :
        LET g == GetData(Win, now, now + d) IN
        /\ now + d <= Horizon
        /\ SetWin(g.win)
        /\ clock' = now + d
        /\ Record("GetData", 0, now, g.out)

DoPrintHistogram ==
    \E opt \in {Nil} \cup {Option(h) : h \in Heights}, now \in Nows :
        LET g == PrintHistogram(Win, opt, now) IN
        /\ SetWin(g.win)
        /\ clock' = now
        /\ Record("PrintHistogram", opt, now, g.out)

\* The well-formed JSON texts Scan is given besides what Value returned:
\* size and duration positive, up to MaxRec buckets, any cursor up to MaxRec.
Records ==
    {[buckets |-> b, size |-> s, duration |-> 1,
      last_time |-> RFC3339(clock), cursor |-> c,
      last_update |-> RFC3339(ZeroTime)] :
        b \in {[k \in 1..n |-> 1] : n \in 0..MaxRec},
        s \in 1..MaxRec,
        c \in 0..MaxRec}

\* What Scan is given: what Value returned last, nil, a value that is not
\* []byte, malformed bytes, the bytes of a window just constructed and,
\* where persistence is followed, the bytes of any of Records.
ScanInputs ==
    {blob, NilValue, NotBytes, Malformed,
     Value(NewTimeWindow(size, duration, clock))}
        \cup (IF mode = "scan" THEN {Bytes(r) : r \in Records} ELSE {})

Kind(value) ==
    IF value.kind = "nil" THEN "nil"
    ELSE IF value.kind # "bytes" THEN "other"
    ELSE IF ~value.valid THEN "malformed"
    ELSE IF value = blob THEN "stored"
    ELSE "record"

\* A call of Value or Scan, recorded where persistence is followed: what
\* Scan was given, whether it returned an error, and whether the call
\* changed a field of the window.
Persisted(op, kind, err, changed) ==
    IF mode = "scan"
    THEN [op |-> op, kind |-> kind, err |-> err, changed |-> changed]
    ELSE NoCall

Histories == <<last, trace, incDecAt, run, mode, wrote, order>>

DoValue ==
    /\ UNCHANGED Unwritten
    /\ blob' = IF mode = "scan" THEN Value(Win) ELSE blob
    /\ saved' = IF mode = "scan" THEN Win ELSE saved
    /\ pers' = Persisted("Value", "none", FALSE, FALSE)
    /\ UNCHANGED <<clock, panicked>>
    /\ UNCHANGED Histories

ScanWith(value) ==
    LET s == Scan(Win, value) IN
    /\ SetWin(s.win)
    /\ pers' = Persisted("Scan", Kind(value), s.err, s.win # Win)
    /\ UNCHANGED <<blob, saved, clock, panicked>>
    /\ UNCHANGED Histories

DoScan == \E value \in ScanInputs : ScanWith(value)

\* Scan(nil) returns before w.mu.Lock(): inside the lock the value is not nil.
DoScanLocked == \E value \in ScanInputs \ {NilValue} : ScanWith(value)

\* `return w.buckets[w.cursor], true` with the cursor outside the slice:
\* panic: runtime error: index out of range.
DoGetLatestValueOutOfRange ==
    /\ cursor \notin DOMAIN buckets
    /\ panicked' = TRUE
    /\ UNCHANGED Unwritten
    /\ pers' = NoCall
    /\ UNCHANGED <<blob, saved, clock>>
    /\ UNCHANGED Histories

\* One caller: each operation runs from its call to its return.
CallAppend == DoAppend /\ UNCHANGED lockVars
CallInc == DoInc /\ UNCHANGED lockVars
CallDec == DoDec /\ UNCHANGED lockVars
CallReset == DoReset /\ UNCHANGED lockVars
CallSum == DoSum /\ UNCHANGED lockVars
CallCount == DoCount /\ UNCHANGED lockVars
CallAvg == DoAvg /\ UNCHANGED lockVars
CallGetLatestValue == DoGetLatestValue /\ UNCHANGED lockVars
CallLastUpdateTime == DoLastUpdateTime /\ UNCHANGED lockVars
CallGetData == DoGetData /\ UNCHANGED lockVars
CallPrintHistogram == DoPrintHistogram /\ UNCHANGED lockVars
CallValue == DoValue /\ UNCHANGED lockVars
CallScan == DoScan /\ UNCHANGED lockVars
CallGetLatestValueOutOfRange == DoGetLatestValueOutOfRange /\ UNCHANGED lockVars

\* A clock without a monotonic reading can be set back between two calls
\* (once in a run).
ClockBack ==
    /\ mode = "seq"
    /\ clock' \in 0..(clock - 1)
    /\ mode' = "back"
    /\ last' = Unrecorded
    /\ trace' = [n |-> 3, a |-> NoEvent, b |-> NoEvent]
    /\ run' = Broken
    /\ incDecAt' = ZeroTime
    /\ UNCHANGED <<buckets, size, duration, lastTime, cursor, lastUpdate>>
    /\ UNCHANGED <<wrote, order, blob, saved, pers, panicked>>
    /\ UNCHANGED lockVars

Next ==
    \/ CallAppend
    \/ CallInc
    \/ CallDec
    \/ CallReset
    \/ CallSum
    \/ CallCount
    \/ CallAvg
    \/ CallGetLatestValue
    \/ CallLastUpdateTime
    \/ CallGetData
    \/ CallPrintHistogram

Spec == Init /\ [][Next]_vars

\* The operations under a clock that may also be set back.
NextSkew == Next \/ ClockBack

SpecSkew == Init /\ [][NextSkew]_vars

\* The operations that rotate, over a longer time, each write stamped.
NextAge ==
    \/ CallAppend
    \/ CallInc
    \/ CallDec
    \/ CallReset
    \/ CallGetData
    \/ CallPrintHistogram

InitAge == InitWindow /\ InitLock /\ mode = "age"

SpecAge == InitAge /\ [][NextAge]_vars

\* The window has size buckets, the cursor among them.
Shaped ==
    /\ size >= 1
    /\ cursor >= 0 /\ cursor < size
    /\ DOMAIN buckets = 0..(size - 1)

\* The operations with Value and Scan, until one panics. Of the operations
\* on a window whose shape a Scan has broken, GetLatestValue is followed.
NextScan ==
    \/ ~panicked /\ Shaped /\ CallAppend
    \/ ~panicked /\ Shaped /\ CallInc
    \/ ~panicked /\ Shaped /\ CallDec
    \/ ~panicked /\ Shaped /\ CallGetData
    \/ ~panicked /\ Shaped /\ CallGetLatestValue
    \/ ~panicked /\ CallValue
    \/ ~panicked /\ CallScan
    \/ ~panicked /\ CallGetLatestValueOutOfRange

\* Persistence is followed from a window of MaxRec buckets of one second.
InitScan ==
    InitWindow /\ size = MaxRec /\ duration = 1 /\ InitLock /\ mode = "scan"

SpecScan == InitScan /\ [][NextScan]_vars

\* ------------------------------------------------------ concurrent callers
\* w.mu is a sync.RWMutex. Lock() takes the writers' mutex, which announces
\* the writer and turns later RLock() calls away, then waits for the read
\* locks held to be released. Each operation's body runs with its unlock as
\* one step: nothing else can run between them.
Exclusive == {"Append", "Inc", "Dec", "Reset", "GetData", "PrintHistogram",
              "Scan"}
Shared == {"Sum", "Count", "GetLatestValue", "LastUpdateTime", "Value"}

DoOp(o) ==
    \/ o = "Append" /\ DoAppend
    \/ o = "Inc" /\ DoInc
    \/ o = "Dec" /\ DoDec
    \/ o = "Reset" /\ DoReset
    \/ o = "GetData" /\ DoGetData
    \/ o = "PrintHistogram" /\ DoPrintHistogram
    \/ o = "Sum" /\ DoSum
    \/ o = "Count" /\ DoCount
    \/ o = "GetLatestValue" /\ DoGetLatestValue
    \/ o = "LastUpdateTime" /\ DoLastUpdateTime
    \/ o = "Avg" /\ DoAvg
    \/ o = "Scan" /\ DoScanLocked
    \/ o = "Value" /\ DoValue

WindowVars == <<buckets, size, duration, lastTime, cursor, lastUpdate, clock,
                last, trace, incDecAt, run, mode, wrote, order,
                blob, saved, pers, panicked>>

CanRLock == wmutex = None
CanLock == wmutex = None
\* Lock() that does not wait for the read locks to be released.
CanWriteOverReaders(p) == wmutex = p /\ ~writing

CanWrite(p) == wmutex = p /\ ~writing /\ readers = 0

\* A caller starts an operation.
Begin(p) ==
    /\ pc[p] = "idle"
    /\ \E o \in Exclusive \cup Shared \cup {"Avg"} :
        /\ call' = [call EXCEPT ![p] = o]
        /\ pc' = [pc EXCEPT ![p] = IF o \in Exclusive THEN "Lock" ELSE "RLock"]
    /\ UNCHANGED <<readers, wmutex, writing>>
    /\ UNCHANGED WindowVars

\* w.mu.Lock(): announce the writer.
LockAnnounce(p) ==
    /\ pc[p] = "Lock"
    /\ CanLock
    /\ wmutex' = p
    /\ pc' = [pc EXCEPT ![p] = "LockWait"]
    /\ UNCHANGED <<call, readers, writing>>
    /\ UNCHANGED WindowVars

\* w.mu.Lock(): the read locks are released, the write lock is held.
LockAcquire(p) ==
    /\ pc[p] = "LockWait"
    /\ CanWrite(p)
    /\ writing' = TRUE
    /\ pc' = [pc EXCEPT ![p] = "locked"]
    /\ UNCHANGED <<call, readers, wmutex>>
    /\ UNCHANGED WindowVars

\* The body of an exclusive operation and its deferred w.mu.Unlock().
ExclusiveBody(p) ==
    /\ pc[p] = "locked"
    /\ DoOp(call[p])
    /\ writing' = FALSE
    /\ wmutex' = None
    /\ pc' = [pc EXCEPT ![p] = "idle"]
    /\ call' = [call EXCEPT ![p] = "none"]
    /\ UNCHANGED readers

\* w.mu.RLock() of Sum, Count, GetLatestValue, LastUpdateTime and Avg.
RLock(p) ==
    /\ pc[p] = "RLock"
    /\ CanRLock
    /\ readers' = readers + 1
    /\ pc' = [pc EXCEPT ![p] = "rlocked"]
    /\ UNCHANGED <<call, wmutex, writing>>
    /\ UNCHANGED WindowVars

\* The body of a shared operation and its deferred w.mu.RUnlock().
SharedBody(p) ==
    /\ pc[p] = "rlocked"
    /\ call[p] \in Shared
    /\ DoOp(call[p])
    /\ readers' = readers - 1
    /\ pc' = [pc EXCEPT ![p] = "idle"]
    /\ call' = [call EXCEPT ![p] = "none"]
    /\ UNCHANGED <<wmutex, writing>>

\* Avg holds its read lock and calls w.Count(), which takes w.mu.RLock().
AvgCountRLock(p) ==
    /\ pc[p] = "rlocked"
    /\ call[p] = "Avg"
    /\ CanRLock
    /\ readers' = readers + 1
    /\ pc' = [pc EXCEPT ![p] = "AvgCount"]
    /\ UNCHANGED <<call, wmutex, writing>>
    /\ UNCHANGED WindowVars

\* Count() returns to Avg: count == 0 returns at once, else w.Sum() is next.
AvgCountBody(p) ==
    /\ pc[p] = "AvgCount"
    /\ readers' = readers - 1
    /\ pc' = [pc EXCEPT ![p] = IF Count(Win) = 0 THEN "AvgReturn" ELSE "AvgSumRLock"]
    /\ UNCHANGED <<call, wmutex, writing>>
    /\ UNCHANGED WindowVars

\* Avg calls w.Sum(), which takes w.mu.RLock().
AvgSumRLock(p) ==
    /\ pc[p] = "AvgSumRLock"
    /\ CanRLock
    /\ readers' = readers + 1
    /\ pc' = [pc EXCEPT ![p] = "AvgSum"]
    /\ UNCHANGED <<call, wmutex, writing>>
    /\ UNCHANGED WindowVars

AvgSumBody(p) ==
    /\ pc[p] = "AvgSum"
    /\ readers' = readers - 1
    /\ pc' = [pc EXCEPT ![p] = "AvgReturn"]
    /\ UNCHANGED <<call, wmutex, writing>>
    /\ UNCHANGED WindowVars

\* Avg returns, with its deferred w.mu.RUnlock().
AvgReturn(p) ==
    /\ pc[p] = "AvgReturn"
    /\ DoAvg
    /\ readers' = readers - 1
    /\ pc' = [pc EXCEPT ![p] = "idle"]
    /\ call' = [call EXCEPT ![p] = "none"]
    /\ UNCHANGED <<wmutex, writing>>

NextConc ==
    \E p \in Procs :
        \/ Begin(p)
        \/ LockAnnounce(p)
        \/ LockAcquire(p)
        \/ ExclusiveBody(p)
        \/ RLock(p)
        \/ SharedBody(p)
        \/ AvgCountRLock(p)
        \/ AvgCountBody(p)
        \/ AvgSumRLock(p)
        \/ AvgSumBody(p)
        \/ AvgReturn(p)

\* Concurrent callers share one window of ConcSize buckets of one second.
InitConc == InitWindow /\ size = ConcSize /\ duration = 1 /\ InitLock /\ mode = "conc"

SpecConc == InitConc /\ [][NextConc]_vars

\* The step a caller inside an operation can take, if any.
CanStep(p) ==
    \/ pc[p] = "Lock" /\ CanLock
    \/ pc[p] = "LockWait" /\ CanWrite(p)
    \/ pc[p] = "RLock" /\ CanRLock
    \/ pc[p] = "rlocked" /\ (call[p] = "Avg" => CanRLock)
    \/ pc[p] = "AvgSumRLock" /\ CanRLock
    \/ pc[p] \in {"locked", "AvgCount", "AvgSum", "AvgReturn"}

\* C2: no deadlock: while an operation is under way, some caller inside an
\* operation can take its next step.
NoDeadlock ==
    (\E p \in Procs : pc[p] # "idle") =>
        \E p \in Procs : pc[p] # "idle" /\ CanStep(p)

\* ------------------------------------------------------------- properties
RECURSIVE Total(_, _)
Total(f, S) ==
    IF S = {} THEN 0 ELSE LET i == CHOOSE x \in S : TRUE IN f[i] + Total(f, S \ {i})

Indices == 0..(size - 1)
NonZero == {i \in Indices : buckets[i] # 0}

\* C1: whatever the clock readings, the cursor stays within 0..size-1 and
\* the bucket array keeps exactly size entries.
CursorInRange ==
    /\ size >= 1
    /\ cursor >= 0 /\ cursor < size
    /\ DOMAIN buckets = Indices

\* A write that read a clock set back, the cursor on the last bucket.
SkewSeen ==
    /\ mode = "acted"
    /\ size = 3 /\ cursor = size - 1
    /\ lastTime > clock
    /\ buckets[cursor] = MaxBucket

\* C3: a write that finds size or more bucket periods passed leaves cursor 0,
\* every bucket but bucket 0 at 0, and a sum equal to the value it put.
StaleWriteClears ==
    (last.op \in Writes /\ last.passed >= size) =>
        /\ cursor = 0
        /\ \A i \in Indices \ {0} : buckets[i] = 0
        /\ buckets[0] = Put(last.op, last.arg)
        /\ Sum(Win) = Put(last.op, last.arg)

\* Append(1), the whole window passes, Append(2): the sum is 2.
StaleWriteSeen ==
    /\ size >= 2
    /\ trace.n = 2
    /\ trace.a.op = "Append" /\ trace.a.arg = 1
    /\ trace.b.op = "Append" /\ trace.b.arg = 2 /\ trace.b.passed >= size
    /\ last.op = "Sum" /\ last.val = 2

\* C4, as claimed: a write, the window span passes with no operation, and
\* the next Sum() returns 0.
SumAfterSpanIsZero ==
    (last.op = "Sum" /\ last.phase = "stale") => last.val = 0

\* C4, amended: a write, the window span passes with no operation; then
\* GetData or PrintHistogram shows every bucket cleared, a Sum() after it
\* returns 0, a write after that is recorded and the Sum() following it
\* returns the value written.
RotatingReadClears ==
    /\ last.phase = "cleared" =>
        /\ AllZero(buckets)
        /\ last.op = "GetData" => \A i \in Indices : last.val[i].Values = <<0>>
        /\ last.op = "PrintHistogram" => last.val.head = NoData
    /\ last.phase = "readClear" => last.val = 0
    /\ last.phase = "rewritten" => Total(buckets, Indices) = last.put
    /\ last.phase = "readNew" => last.val = last.put

RewrittenSeen ==
    /\ last.op = "Sum" /\ last.phase = "readNew" /\ last.val = 2
    /\ size >= 2

\* C5: Append calls, each after the first rotating by one bucket or more, the
\* cursor moving fewer than size positions in all: the sum is the sum of the
\* appended values.
SpacedAppendsAddUp ==
    (run.ok /\ run.n >= 1 /\ run.adv < size) =>
        /\ run.n <= size
        /\ Total(buckets, Indices) = run.sum

SpacedAppendsSeen ==
    /\ run.ok /\ run.n = 3 /\ run.adv < size
    /\ \A i \in Indices : buckets[i] > 0
    /\ last.op = "Sum" /\ last.val = run.sum

\* C6: Append(v) and Reset(v) have the same effect from every state at every
\* time; each leaves the current bucket at v, so that GetLatestValue gives
\* (v, true); with no rotation nothing but the current bucket changes.
AppendIsReset ==
    /\ \A v \in Vals, now \in Nows :
        /\ Append(Win, v, now) = Reset(Win, v, now)
        /\ passed(Win, now) <= 0 =>
               Reset(Win, v, now) = [Win EXCEPT !.buckets[cursor] = v]
    /\ last.op \in {"Append", "Reset"} =>
        /\ buckets[cursor] = last.arg
        /\ GetLatestValue(Win) = <<last.arg, TRUE>>

\* Inc(2), Reset(1) in one bucket period, then GetLatestValue.
ResetSeen ==
    /\ trace.n = 2
    /\ trace.a.op = "Inc" /\ trace.a.arg = 2
    /\ trace.b.op = "Reset" /\ trace.b.arg = 1 /\ trace.b.passed = 0
    /\ last.op = "GetLatestValue" /\ last.val = <<1, TRUE>>

\* C7: with no rotation Inc and Dec change the current bucket by the delta
\* and no other bucket nor the cursor; Inc(a), Inc(b) on a fresh bucket give
\* a+b and Inc(a), Dec(b) give a-b.
IncDecAccumulate ==
    /\ \A d \in Deltas, now \in Nows :
        passed(Win, now) <= 0 =>
            /\ Inc(Win, d, now).buckets = [buckets EXCEPT ![cursor] = @ + d]
            /\ Dec(Win, d, now).buckets = [buckets EXCEPT ![cursor] = @ - d]
            /\ Inc(Win, d, now).cursor = cursor
            /\ Dec(Win, d, now).cursor = cursor
    /\ (trace.n = 2 /\ trace.a.op = "Inc" /\ trace.b.passed <= 0) =>
        /\ trace.b.op = "Inc" => buckets[cursor] = trace.a.arg + trace.b.arg
        /\ trace.b.op = "Dec" => buckets[cursor] = trace.a.arg - trace.b.arg

IncDecSeen ==
    /\ trace.n = 2
    /\ trace.a.op = "Inc" /\ trace.a.arg = 2
    /\ trace.b.op = "Dec" /\ trace.b.arg = 1 /\ trace.b.passed = 0
    /\ last.op = "GetLatestValue" /\ last.val = <<1, TRUE>>

\* C8: Count() is the number of non-zero buckets, Sum() the sum over all
\* size buckets, Avg() their quotient, or 0 when Count() is 0; Append(1),
\* Append(2) with no rotation on a fresh window give 1, 2 and 2.
Aggregates ==
    /\ last.op = "Count" => last.val = Cardinality(NonZero)
    /\ last.op = "Sum" => last.val = Total(buckets, Indices)
    /\ last.op = "Avg" =>
        IF NonZero = {} THEN last.val = [num |-> 0, den |-> 1]
        ELSE last.val = [num |-> Total(buckets, Indices),
                         den |-> Cardinality(NonZero)]
    /\ (/\ trace.n = 2
        /\ trace.a.op = "Append" /\ trace.a.arg = 1
        /\ trace.b.op = "Append" /\ trace.b.arg = 2 /\ trace.b.passed <= 0) =>
        /\ last.op = "Count" => last.val = 1
        /\ last.op = "Sum" => last.val = 2
        /\ last.op = "Avg" => last.val = [num |-> 2, den |-> 1]

AggregatesSeen ==
    /\ trace.n = 2
    /\ trace.a.op = "Append" /\ trace.a.arg = 1
    /\ trace.b.op = "Append" /\ trace.b.arg = 2 /\ trace.b.passed = 0
    /\ last.op = "Avg" /\ last.val = [num |-> 2, den |-> 1]

\* C9: GetData returns size entries, entry i holding the one value of bucket
\* (cursor - i) mod size after its rotation and the time of entry 0 less
\* i bucket durations, entry 0 timed at or after the call.
GetDataNewestFirst ==
    last.op = "GetData" =>
        /\ DOMAIN last.val = Indices
        /\ \A i \in Indices :
            /\ last.val[i].Values = <<buckets[(cursor - i) % size]>>
            /\ last.val[i].Time = last.val[0].Time - i * duration
        /\ last.val[0].Time >= last.at

GetDataSeen ==
    /\ last.op = "GetData"
    /\ size = 3 /\ cursor = 1
    /\ last.passed = 1
    /\ last.val[1].Values = <<2>>
    /\ last.val[0].Time > last.at

\* C10: lastUpdate is the clock reading of the latest Inc or Dec, the zero
\* time if there was none, and LastUpdateTime returns it.
LastUpdateIsLatestIncDec ==
    /\ lastUpdate = incDecAt
    /\ last.op = "LastUpdateTime" => last.val = incDecAt

LastUpdateSeen ==
    /\ last.op = "LastUpdateTime"
    /\ last.val >= 0 /\ last.val < lastTime
    /\ trace.n = 3

\* C11: PrintHistogram returns the no-data text exactly when, after its
\* rotation, no bucket is positive; otherwise a chart of height bar rows of
\* size columns each, newest first, the cell of row h (from height down to 1)
\* and column i filled exactly when bucket (cursor - i) mod size is positive
\* and at least maxValue * h / height, maxValue the largest positive bucket.
HistogramChart ==
    last.op = "PrintHistogram" =>
        LET height == IF last.arg.nil THEN DefaultHeight ELSE last.arg.Height
            at(i) == buckets[(cursor - i) % size]
            positive == {v \in {buckets[i] : i \in Indices} : v > 0}
            maxValue == CHOOSE m \in positive : \A v \in positive : v <= m
        IN IF positive = {}
           THEN last.val.head = NoData
           ELSE /\ last.val.head # NoData
                /\ DOMAIN last.val.bars = 1..height
                /\ \A k \in 1..height :
                      LET h == height - k + 1 IN
                      /\ DOMAIN last.val.bars[k] = Indices
                      /\ \A i \in Indices :
                            last.val.bars[k][i] =
                                (at(i) > 0 /\ at(i) * height >= maxValue * h)

\* A chart of two rows over buckets 1, 2 and -1, the cursor wrapped to 0.
HistogramSeen ==
    /\ last.op = "PrintHistogram" /\ last.arg = Option(2)
    /\ size = 3 /\ cursor = 0 /\ lastTime = 3
    /\ buckets[0] = 1 /\ buckets[2] = 2 /\ buckets[1] = -1
    /\ last.val.bars[1] = [i \in Indices |-> i = 1]
    /\ last.val.bars[2] = [i \in Indices |-> i \in {0, 1}]

\* C15: rotate with 1 <= p < size periods passed moves the cursor to
\* (cursor + p) mod size, zeroes the p buckets it enters, keeps every other
\* bucket, the one it leaves included, and sets lastTime to the reading
\* itself; after an operation that rotated so, the buckets entered before
\* the current one are 0 and lastTime is the reading of the call.
PartialRotate ==
    /\ \A now \in Nows :
        LET p == (now - lastTime) \div duration
            r == rotate(Win, now)
            entered == {(cursor + k) % size : k \in 1..p}
        IN (1 <= p /\ p < size) =>
            /\ r.cursor = (cursor + p) % size
            /\ \A i \in entered : r.buckets[i] = 0
            /\ \A i \in Indices \ entered : r.buckets[i] = buckets[i]
            /\ DOMAIN r.buckets = Indices
            /\ r.lastTime = now
            /\ r.size = size /\ r.duration = duration
            /\ r.lastUpdate = lastUpdate
    /\ (last.op \in Rotating /\ 1 <= last.passed /\ last.passed < size) =>
        /\ lastTime = last.at
        /\ \A k \in 1..(last.passed - 1) : buckets[(cursor - k) % size] = 0
        /\ last.op \in RotatingReads => buckets[cursor] = 0

\* GetData one and a half periods after construction: one bucket entered,
\* the bucket left keeps its value, lastTime is the reading.
PartialRotateSeen ==
    /\ last.op = "GetData" /\ last.passed = 1
    /\ size = 3 /\ duration = 2
    /\ lastTime = 3 /\ cursor = 1
    /\ buckets[0] = 2 /\ buckets[1] = 0

\* The effect of every operation that rotates, read at any clock reading at
\* which less than one bucket period has passed since lastTime.
NoPeriodPassed ==
    \A now \in 0..MaxTime :
        now - lastTime < duration =>
            /\ rotate(Win, now) = Win
            /\ \A now2 \in {now, now + 1} : GetData(Win, now, now2).win = Win
            /\ \A opt \in {Nil, Option(0), Option(MaxHeight)} :
                    PrintHistogram(Win, opt, now).win = Win
            /\ \A v \in Vals :
                /\ Append(Win, v, now) = [Win EXCEPT !.buckets[cursor] = v]
                /\ Reset(Win, v, now) = [Win EXCEPT !.buckets[cursor] = v]
            /\ \A d \in Deltas :
                /\ Inc(Win, d, now) = [Win EXCEPT !.buckets[cursor] = @ + d,
                                                  !.lastUpdate = now]
                /\ Dec(Win, d, now) = [Win EXCEPT !.buckets[cursor] = @ - d,
                                                  !.lastUpdate = now]

\* C16: when no full bucket period has passed since lastTime (the same
\* period, or a clock set back) rotation changes nothing: GetData and
\* PrintHistogram leave the window as it is, a write changes only the bucket
\* at the cursor (Inc and Dec lastUpdate too); and the cursor changes only in
\* a step at whose reading a full period or more has passed since lastTime.
NoRotationWithinPeriod ==
    /\ []NoPeriodPassed
    /\ [][cursor' # cursor => lastTime' - lastTime >= duration]_vars

\* Inc at a reading set back before lastTime: only the current bucket and
\* lastUpdate have changed.
SetBackWriteSeen ==
    /\ mode = "acted"
    /\ size = 2 /\ cursor = 1
    /\ lastUpdate = clock /\ clock < lastTime
    /\ buckets[cursor] = MaxBucket /\ buckets[0] = 1

\* C19: with a height of 0 or less, as with no option at all, PrintHistogram
\* draws the default 20 bar rows.
NonPositiveHeightIsDefault ==
    (/\ last.op = "PrintHistogram"
     /\ last.val.head # NoData
     /\ (last.arg.nil \/ last.arg.Height <= 0)) =>
        DOMAIN last.val.bars = 1..DefaultHeight

\* The age, at the reading of the latest operation, of what bucket i holds.
Age(i) == last.at - (wrote[i] - 1)

\* C14, as claimed: after an operation that rotates, no bucket but the
\* current one holds a value (other than 0) written a window span
\* (size * duration) or more before the reading of that operation.
OnlyLastSpan ==
    last.op \in Rotating =>
        \A i \in Indices \ {cursor} :
            (wrote[i] # 0 /\ buckets[i] # 0) => Age(i) < size * duration

\* C14, amended: rotate counts whole periods since lastTime and drops the
\* rest, so what a bucket other than the current one holds was written less
\* than (2 * size - 1) bucket durations before the reading of the operation;
\* a bucket that holds no write holds 0.
OnlyLastSteps ==
    /\ last.op \in Rotating =>
        \A i \in Indices \ {cursor} :
            (wrote[i] # 0 /\ buckets[i] # 0) =>
                Age(i) < (2 * size - 1) * duration
    /\ \A i \in Indices : wrote[i] = 0 => buckets[i] = 0

\* Two buckets of 2 s: a value written at 0 is still held, one bucket behind
\* the cursor, after a read at 4.
OutlivedSpanSeen ==
    /\ size = 2 /\ duration = 2
    /\ last.op = "GetData" /\ last.at = 4
    /\ cursor = 1 /\ wrote[0] = 1 /\ buckets[0] = 2

\* Walking back from the cursor, the buckets that hold a write are met from
\* the latest written to the earliest.
NewestFirst ==
    \A i \in Indices, j \in Indices :
        LET a == order[(cursor - i) % size]
            b == order[(cursor - j) % size]
        IN (i < j /\ a # 0 /\ b # 0) => a >= b

\* C17: walking back from the cursor, the buckets that hold written data
\* are in order of decreasing recency; and a step writes no bucket but the
\* one at the cursor (any other bucket keeps its value or is zeroed).
RecencyOrder ==
    /\ []NewestFirst
    /\ [][\A i \in Indices :
            i # cursor' => (buckets'[i] = buckets[i] \/ buckets'[i] = 0)]_vars

\* Three buckets written one after the other, the cursor wrapped round to
\* bucket 0 and that bucket written again.
RecencySeen ==
    /\ size = 3 /\ cursor = 0
    /\ order[0] = 3 /\ order[2] = 2 /\ order[1] = 1
    /\ lastTime >= 3 * duration

\* C12: after Scan of malformed bytes the bucket duration is the default
\* duration, no other field has changed and no error was returned.
MalformedScanSetsDefault ==
    (pers.op = "Scan" /\ pers.kind = "malformed") =>
        /\ ~pers.err
        /\ duration = DefaultDuration

\* C13: whatever well-formed record of positive size and duration Scan was
\* given, no operation ends in an out-of-range access to the buckets.
NoOutOfRange == ~panicked

\* C20: Scan of what Value returned leaves the window, whatever it was,
\* with every field as the source had it at the call of Value, and returns
\* no error; Value changes no field of its window; Scan(nil) changes none
\* and returns no error.
RoundTrip ==
    /\ (pers.op = "Scan" /\ pers.kind = "stored") =>
        /\ Win = saved
        /\ ~pers.err
    /\ pers.op = "Value" =>
        /\ Win = saved
        /\ blob.kind = "bytes"
    /\ (pers.op = "Scan" /\ pers.kind = "nil") =>
        /\ ~pers.changed
        /\ ~pers.err

\* Scan of what Value returned has changed the window, to two buckets with
\* the cursor on the second and a time of last update.
RoundTripSeen ==
    /\ pers.op = "Scan" /\ pers.kind = "stored" /\ pers.changed
    /\ Shaped
    /\ size = 2 /\ cursor = 1
    /\ buckets[0] = 2 /\ buckets[1] = -1
    /\ lastTime = 1 /\ lastUpdate = 1
    /\ Win = saved

\* The callers holding the read lock, in whatever part of their operation.
ReadLocked == {"rlocked", "AvgCount", "AvgSumRLock", "AvgSum", "AvgReturn"}

\* While a caller is inside an exclusive critical section, no other caller
\* is inside a critical section, exclusive or shared.
OneAtATime ==
    \A p \in Procs :
        pc[p] = "locked" =>
            \A q \in Procs \ {p} : pc[q] \notin ReadLocked \cup {"locked"}

\* C18: under every interleaving the operations on the window are
\* serialized by the lock: while Append, Inc, Dec, Reset, GetData,
\* PrintHistogram or Scan is inside its critical section no other operation
\* is inside its own; the window changes only in the step in which one of
\* them completes, so what an operation reads is a state between two
\* complete operations; and the operations under the read lock change no
\* field of the window.
Serialized ==
    /\ []OneAtATime
    /\ [][Unwritten' # Unwritten =>
            \E p \in Procs :
                pc[p] = "locked" /\ pc'[p] = "idle" /\ call[p] \in Exclusive]_vars
    /\ [][(\E p \in Procs :
                call[p] \in Shared \cup {"Avg"} /\ pc'[p] # pc[p]) =>
            UNCHANGED Unwritten]_vars

\* One caller inside Scan's critical section, the other waiting in the
\* RLock() of Sum, the window already written.
SerializedSeen ==
    /\ pc[1] = "locked" /\ call[1] = "Scan"
    /\ pc[2] = "RLock" /\ call[2] = "Sum"
    /\ buckets[cursor] = MaxBucket /\ cursor = 1

====
